---- MODULE Spec2Model ----
(***************************************************************************)
(* Model of server.py: the price poller thread (background_price_poller),  *)
(* the rolling buffers, the moving-average crossover evaluation with its   *)
(* process-wide last_signal, and the SocketIO handlers.                    *)
(*                                                                         *)
(* Representation of Python values:                                        *)
(*   None            the empty tuple <<>>                                  *)
(*   str             the tuple of its whitespace-separated words, so that  *)
(*                   s + " (RISKY - anomaly)" is \o and s.split()[0] is    *)
(*                   <<Head(s)>>                                           *)
(*   float average   the exact rational <<sum, count>>; <<0, 0>> is NaN    *)
(*   float return    the exact rational <<p[i+1] - p[i], p[i]>>            *)
(*   Optional scalar <<v>> when present (fetch_price(), payload anomalous) *)
(*   dict            a record                                              *)
(*   price           an integer number of price units                      *)
(***************************************************************************)
EXTENDS Integers, Sequences, FiniteSets, TLC

\* prices, timestamps, last_signal: the module's globals
\* pc, price, ts, info, payload: the poller thread's position and locals
\* clock: time.time() as a logical clock, one unit per reading
\* published: the signal of every payload emitted, in order
\* arrivals: every <<price, ts>> ever appended, in order
\* fails: failed fetches since the last successful one
\* clients: connected SocketIO clients
\* market: the quote the price source will return
\* stop_requested: somebody has asked the poller to stop
\* probe: what a caller that runs evaluate_signals() once more, right after
\*        the poller's call and on the same buffer, gets back
VARIABLES prices, timestamps, last_signal, pc, price, ts, info, payload,
          published, arrivals, clock, fails, clients, market, probe,
          stop_requested

vars == <<prices, timestamps, last_signal, pc, price, ts, info, payload,
          published, arrivals, clock, fails, clients, market, probe,
          stop_requested>>

\* ---- Config (server.py) ----
PRICE_WINDOW == 200
SHORT == 5
LONG == 20
MIN_SAMPLES == 21
RETURNS_WINDOW == 50
MIN_RETURNS == 30

\* ---- Bounds of the environment ----
\* successful fetches of the trend scenario
MaxTicks == 56
\* after its first change of direction the quote keeps a direction for at
\* least this many ticks
MinRun == 35
\* appends past PRICE_WINDOW in the long-run scenario
MaxOver == 3
\* consecutive failed fetches
MaxFails == 3
\* longest returns window handed to is_anomalous() directly
MaxWindowLen == 32
\* simultaneously connected SocketIO clients
MaxClients == 1
\* first quoted price, and the per-tick moves of the quote
StartPrices == {100}
Deltas == {-1, 0, 1}

None == <<>>
Some(v) == <<v>>

BUY == <<"BUY">>
SELL == <<"SELL">>
RISKY_TAG == <<"(RISKY", "-", "anomaly)">>

\* ---- deque(maxlen=PRICE_WINDOW).append ----
\* (mutant) a plain list: nothing is evicted
DequeAppend_unbounded(d, x) == Append(d, x)

DequeAppend(d, x) ==
    IF Len(d) >= PRICE_WINDOW THEN Tail(d) \o <<x>> ELSE Append(d, x)

\* ---- numeric helpers ----
RECURSIVE SeqSum(_)
SeqSum(s) == IF s = <<>> THEN 0 ELSE Head(s) + SeqSum(Tail(s))

LastK(s, k) == SubSeq(s, Len(s) - k + 1, Len(s))

\* float comparison of two rationals with non-negative denominators;
\* every comparison with NaN (<<0, 0>>) is false
GT(a, b) == a[1] * b[2] > b[1] * a[2]
LT(a, b) == a[1] * b[2] < b[1] * a[2]

\* (mutant) the window ends one sample before the newest
RollingMeanLast_lagged(series, window) ==
    IF Len(series) < window + 1 THEN <<0, 0>>
    ELSE <<SeqSum(SubSeq(series, Len(series) - window, Len(series) - 1)), window>>

\* pd.Series(series).rolling(window).mean().iloc[-1]
RollingMeanLast(series, window) ==
    IF Len(series) < window THEN <<0, 0>>
    ELSE <<SeqSum(LastK(series, window)), window>>

\* (mutant) the two windows exchanged
compute_moving_averages_swapped(series, short, long) ==
    IF Len(series) < long THEN <<None, None>>
    ELSE <<RollingMeanLast(series, long), RollingMeanLast(series, short)>>

compute_moving_averages(series, short, long) ==
    IF Len(series) < long THEN <<None, None>>
    ELSE <<RollingMeanLast(series, short), RollingMeanLast(series, long)>>

\* np.diff(arr) / arr[:-1]
Returns(arr) == [i \in 1..(Len(arr) - 1) |-> <<arr[i + 1] - arr[i], arr[i]>>]

\* returns[-50:]
Trailing(s, k) == IF Len(s) <= k THEN s ELSE LastK(s, k)

\* (mutant) the threshold of the long window in place of 30
is_anomalous_long(returns_window, forest) ==
    IF Len(returns_window) < LONG THEN FALSE ELSE forest

\* forest: the verdict of IsolationForest.fit(X[:-1]).predict(X[-1]) == -1
is_anomalous(returns_window, forest) ==
    IF Len(returns_window) < MIN_RETURNS THEN FALSE ELSE forest

\* signal.split()[0]
\* (mutant) last_signal = signal, the risky tag kept
FirstWord_whole(s) == s

FirstWord(s) == <<Head(s)>>

\* (mutant) the rule without the comparison with last_signal
Crossover_unsuppressed(ma_short, ma_long, ls) ==
    IF ma_short # None /\ ma_long # None
    THEN IF GT(ma_short, ma_long) THEN BUY
         ELSE IF LT(ma_short, ma_long) THEN SELL
         ELSE None
    ELSE None

\* (mutant) >= and <= in place of > and <
Crossover_inclusive(ma_short, ma_long, ls) ==
    IF ma_short # None /\ ma_long # None
    THEN IF ~LT(ma_short, ma_long) /\ ls # BUY THEN BUY
         ELSE IF ~GT(ma_short, ma_long) /\ ls # SELL THEN SELL
         ELSE None
    ELSE None

Crossover(ma_short, ma_long, ls) ==
    IF ma_short # None /\ ma_long # None
    THEN IF GT(ma_short, ma_long) /\ ls # BUY THEN BUY
         ELSE IF LT(ma_short, ma_long) /\ ls # SELL THEN SELL
         ELSE None
    ELSE None

\* (mutant) the tag put in front of the direction
MarkRisky_prefix(signal, anomalous) ==
    IF signal # None /\ anomalous THEN RISKY_TAG \o signal ELSE signal

\* (mutant) an anomalous tick withholds its signal
MarkRisky_suppress(signal, anomalous) ==
    IF anomalous THEN None ELSE signal

MarkRisky(signal, anomalous) ==
    IF signal # None /\ anomalous THEN signal \o RISKY_TAG ELSE signal

\* (mutant) the assignment without "global last_signal": the global keeps
\* its value
NextLastSignal_local(signal, ls) == ls

\* (mutant) last_signal follows every result, a none one too
NextLastSignal_reset(signal, ls) ==
    IF signal # None THEN FirstWord(signal) ELSE None

NextLastSignal(signal, ls) ==
    IF signal # None THEN FirstWord(signal) ELSE ls

\* (mutant) the guard of compute_moving_averages used for evaluate_signals
NotEnoughData_long(ps) == Len(ps) < LONG

\* if len(prices) < 21
NotEnoughData(ps) == Len(ps) < MIN_SAMPLES

\* (mutant) the anomaly check starts at is_anomalous's own minimum
EnoughReturns_min(returns) == Len(returns) >= MIN_RETURNS

\* len(returns) >= 50: the anomaly check is consulted at all
EnoughReturns(returns) == Len(returns) >= RETURNS_WINDOW

\* evaluate_signals(): the returned dict (None when there is not enough data)
\* and the value it leaves in the global last_signal
evaluate_signals(ps, ls, forest) ==
    IF NotEnoughData(ps) THEN [info |-> None, last_signal |-> ls]
    ELSE LET ma == compute_moving_averages(ps, SHORT, LONG)
             returns == Returns(ps)
             anomalous == IF EnoughReturns(returns)
                          THEN is_anomalous(Trailing(returns, RETURNS_WINDOW), forest)
                          ELSE FALSE
             signal == MarkRisky(Crossover(ma[1], ma[2], ls), anomalous)
         IN [info |-> [signal |-> signal,
                       ma_short |-> ma[1],
                       ma_long |-> ma[2],
                       anomalous |-> anomalous],
             last_signal |-> NextLastSignal(signal, ls)]

\* (mutant) a tick without an evaluation reports anomalous = False
BuildPayload_partial(p, t, inf) ==
    [price |-> p,
     timestamp |-> t,
     signal |-> IF inf # None THEN inf.signal ELSE None,
     ma_short |-> IF inf # None THEN inf.ma_short ELSE None,
     ma_long |-> IF inf # None THEN inf.ma_long ELSE None,
     anomalous |-> IF inf # None THEN Some(inf.anomalous) ELSE Some(FALSE)]

BuildPayload(p, t, inf) ==
    [price |-> p,
     timestamp |-> t,
     signal |-> IF inf # None THEN inf.signal ELSE None,
     ma_short |-> IF inf # None THEN inf.ma_short ELSE None,
     ma_long |-> IF inf # None THEN inf.ma_long ELSE None,
     anomalous |-> IF inf # None THEN Some(inf.anomalous) ELSE None]

\* ---- the quoted price (Binance), bounded ----
\* next: the price the next successful fetch returns; trend: the last move;
\* run: ticks since the last change of direction (counted up to MinRun);
\* ticks: successful fetches left
TrendMarkets ==
    [next : StartPrices, trend : Deltas, run : {0}, turned : {FALSE},
     volatile : {TRUE}, ticks : {MaxTicks}]
LongMarkets ==
    [next : StartPrices, trend : Deltas, run : {0}, turned : {FALSE},
     volatile : {FALSE}, ticks : {PRICE_WINDOW + MaxOver}]

MayTurn(m) == m.volatile /\ (~m.turned \/ m.run >= MinRun)

Move(m, d) ==
    [next |-> m.next + d,
     trend |-> d,
     run |-> IF d # m.trend THEN 1
             ELSE IF m.run < MinRun THEN m.run + 1 ELSE m.run,
     turned |-> m.turned \/ d # m.trend,
     volatile |-> m.volatile,
     ticks |-> m.ticks - 1]

Init ==
    /\ prices = <<>>
    /\ timestamps = <<>>
    /\ last_signal = None
    /\ pc = "fetch"
    /\ price = None
    /\ ts = 0
    /\ info = None
    /\ payload = None
    /\ published = <<>>
    /\ arrivals = <<>>
    /\ clock = 0
    /\ fails = 0
    /\ clients = 0
    /\ probe = None
    /\ stop_requested = FALSE
    /\ market \in TrendMarkets \cup LongMarkets

\* fetch_price() returns a price; line 114 takes the branch
FetchOk ==
    /\ pc = "fetch"
    /\ market.ticks > 0
    /\ \E d \in Deltas :
         /\ d = market.trend \/ MayTurn(market)
         /\ market.next + d >= 1
         /\ market' = Move(market, d)
    /\ price' = Some(market.next)
    /\ fails' = 0
    /\ pc' = "append"
    /\ UNCHANGED <<prices, timestamps, last_signal, ts, info, payload,
                   published, arrivals, clock, clients,
                   probe, stop_requested>>

\* (mutant) fetch_price() without its try/except: the exception ends the thread
FetchFail_uncaught ==
    /\ pc = "fetch"
    /\ fails < MaxFails
    /\ price' = None
    /\ fails' = fails + 1
    /\ pc' = "crashed"
    /\ UNCHANGED <<prices, timestamps, last_signal, ts, info, payload,
                   published, arrivals, clock, clients, market,
                   probe, stop_requested>>

\* (mutant) a failed fetch re-uses the newest sample as this tick's price
FetchFail_stale ==
    /\ pc = "fetch"
    /\ fails < MaxFails
    /\ price' = IF prices = <<>> THEN None ELSE Some(prices[Len(prices)])
    /\ fails' = fails + 1
    /\ pc' = IF prices = <<>> THEN "sleep" ELSE "append"
    /\ UNCHANGED <<prices, timestamps, last_signal, ts, info, payload,
                   published, arrivals, clock, clients, market,
                   probe, stop_requested>>

\* fetch_price() catches the exception and returns None; the else branch
FetchFail ==
    /\ pc = "fetch"
    /\ fails < MaxFails
    /\ price' = None
    /\ fails' = fails + 1
    /\ pc' = "sleep"
    /\ UNCHANGED <<prices, timestamps, last_signal, ts, info, payload,
                   published, arrivals, clock, clients, market,
                   probe, stop_requested>>

\* ts = time.time(); prices.append(price); timestamps.append(ts)
AppendSample ==
    /\ pc = "append"
    /\ clock' = clock + 1
    /\ ts' = clock + 1
    /\ prices' = DequeAppend(prices, price[1])
    /\ timestamps' = DequeAppend(timestamps, clock + 1)
    /\ arrivals' = Append(arrivals, <<price[1], clock + 1>>)
    /\ pc' = "evaluate"
    /\ UNCHANGED <<last_signal, price, info, payload, published, fails,
                   clients, market,
                   probe, stop_requested>>

\* info = evaluate_signals()
Evaluate ==
    /\ pc = "evaluate"
    /\ \E forest \in BOOLEAN :
         LET r == evaluate_signals(prices, last_signal, forest)
         IN /\ info' = r.info
            /\ last_signal' = r.last_signal
    /\ pc' = "emit"
    /\ UNCHANGED <<prices, timestamps, price, ts, payload, published,
                   arrivals, clock, fails, clients, market,
                   probe, stop_requested>>

\* payload = {...}; socketio.emit('price_update', payload) returns
EmitOk ==
    /\ pc = "emit"
    /\ payload' = BuildPayload(price[1], ts, info)
    /\ published' = Append(published, payload'.signal)
    /\ pc' = "sleep"
    /\ UNCHANGED <<prices, timestamps, last_signal, price, ts, info,
                   arrivals, clock, fails, clients, market,
                   probe, stop_requested>>

\* socketio.emit raises: nothing in the loop catches it, the thread ends
EmitRaise ==
    /\ pc = "emit"
    /\ payload' = BuildPayload(price[1], ts, info)
    /\ pc' = "crashed"
    /\ UNCHANGED <<prices, timestamps, last_signal, price, ts, info,
                   published, arrivals, clock, fails, clients, market,
                   probe, stop_requested>>

\* time.sleep(POLL_INTERVAL); back to the top of while True
Sleep ==
    /\ pc = "sleep"
    /\ pc' = "fetch"
    /\ UNCHANGED <<prices, timestamps, last_signal, price, ts, info, payload,
                   published, arrivals, clock, fails, clients, market,
                   probe, stop_requested>>

background_price_poller ==
    \/ FetchOk
    \/ FetchFail
    \/ AppendSample
    \/ Evaluate
    \/ EmitOk
    \/ EmitRaise
    \/ Sleep

\* (mutant) a connecting client starts the signal history afresh
handle_connect_resets ==
    /\ clients < MaxClients
    /\ clients' = clients + 1
    /\ last_signal' = None
    /\ UNCHANGED <<prices, timestamps, pc, price, ts, info,
                   payload, published, arrivals, clock, fails, market,
                   probe, stop_requested>>

handle_connect ==
    /\ clients < MaxClients
    /\ clients' = clients + 1
    /\ UNCHANGED <<prices, timestamps, last_signal, pc, price, ts, info,
                   payload, published, arrivals, clock, fails, market,
                   probe, stop_requested>>

handle_disconnect ==
    /\ clients > 0
    /\ clients' = clients - 1
    /\ UNCHANGED <<prices, timestamps, last_signal, pc, price, ts, info,
                   payload, published, arrivals, clock, fails, market,
                   probe, stop_requested>>

Next ==
    \/ background_price_poller
    \/ handle_connect
    \/ handle_disconnect

Spec == Init /\ [][Next]_vars

\* the long run alone: a steady quote for more than PRICE_WINDOW ticks
InitLong == Init /\ market \in LongMarkets

SpecLong == InitLong /\ [][Next]_vars

\* ---- evaluate_signals() called twice on one buffer ----
\* IsolationForest(random_state=0) is a function of its input: on the same
\* returns it gives the verdict it gave the poller's call
SameForest(inf) == IF inf = None THEN FALSE ELSE inf.anomalous

Probed ==
    /\ probe # None
    /\ probe.fn = "evaluate_signals"
    /\ probe.tick = Len(arrivals)

\* a second call right after the poller's, before anything else runs
EvaluateAgain ==
    /\ pc = "emit"
    /\ ~Probed
    /\ LET r == evaluate_signals(prices, last_signal, SameForest(info))
       IN /\ probe' = [fn |-> "evaluate_signals",
                       tick |-> Len(arrivals),
                       first |-> info,
                       second |-> r.info]
          /\ last_signal' = r.last_signal
    /\ UNCHANGED <<prices, timestamps, pc, price, ts, info, payload,
                   published, arrivals, clock, fails, clients, market,
                   stop_requested>>

EmitProbed == Probed /\ EmitOk

NextTwice ==
    \/ FetchOk
    \/ AppendSample
    \/ Evaluate
    \/ EvaluateAgain
    \/ EmitProbed
    \/ Sleep

SpecTwice == Init /\ [][NextTwice]_vars

\* ---- is_anomalous() called directly ----
ReturnValues == {<<-1, 100>>, <<0, 100>>, <<1, 100>>}

\* a window of n returns, a and b in turn
AltWindow(n, a, b) == [i \in 1..n |-> IF i % 2 = 1 THEN a ELSE b]

AnomalyCall ==
    /\ \E n \in 0..MaxWindowLen, a \in ReturnValues, b \in ReturnValues,
          forest \in BOOLEAN :
         probe' = [fn |-> "is_anomalous",
                   window |-> AltWindow(n, a, b),
                   forest |-> forest,
                   result |-> is_anomalous(AltWindow(n, a, b), forest)]
    /\ UNCHANGED <<prices, timestamps, last_signal, pc, price, ts, info,
                   payload, published, arrivals, clock, fails, clients,
                   market, stop_requested>>

SpecAnomaly == InitLong /\ [][AnomalyCall]_vars

\* ---- a request to stop the poller ----
\* server.py has no stop(): start_background_thread drops its Thread object
\* and the loop is "while True" with no flag to read. The request is what the
\* TickScheduler's stop() would record; no statement of the loop looks at it.
RequestStop ==
    /\ stop_requested' = TRUE
    /\ UNCHANGED <<prices, timestamps, last_signal, pc, price, ts, info,
                   payload, published, arrivals, clock, fails, clients,
                   market, probe>>

NextStop ==
    \/ Next
    \/ RequestStop

SpecStop == InitLong /\ [][NextStop]_vars

\* the poller is a thread of its own: the fetch returns within its timeout,
\* the sleep ends, and no handler can keep the thread from its next statement
FairSpec == InitLong /\ [][Next]_vars /\ WF_vars(background_price_poller)

\* ---- helpers of the properties ----
ArrivalPrices == [i \in 1..Len(arrivals) |-> arrivals[i][1]]
ArrivalStamps == [i \in 1..Len(arrivals) |-> arrivals[i][2]]
Newest(s, n) == [i \in 1..(IF Len(s) < n THEN Len(s) ELSE n) |->
                    s[i + (IF Len(s) < n THEN 0 ELSE Len(s) - n)]]

RECURSIVE SumFrom(_, _)
SumFrom(s, i) == IF i > Len(s) THEN 0 ELSE s[i] + SumFrom(s, i + 1)
\* twenty times the mean of the newest 5, and of the newest 20, samples
Short20(ps) == 4 * SumFrom(ps, Len(ps) - 4)
Long20(ps) == SumFrom(ps, Len(ps) - 19)

Direction(signal) == IF signal = None THEN "none" ELSE Head(signal)
IsDirectional(signal) == signal # None
Directional == SelectSeq(published, IsDirectional)

\* C1: the price buffer and the timestamp buffer never hold more than 200
\* samples, and each holds exactly the newest min(200, appended) samples
\* appended so far, in arrival order.
C1_RollingBuffer ==
    /\ Len(prices) <= 200
    /\ Len(timestamps) <= 200
    /\ prices = Newest(ArrivalPrices, 200)
    /\ timestamps = Newest(ArrivalStamps, 200)

C1_Witness ==
    /\ Len(arrivals) > 200
    /\ Len(prices) = 200
    /\ prices[1] = arrivals[Len(arrivals) - 199][1]
    /\ prices[1] # arrivals[1][1]

\* C2: an evaluation on fewer than 21 samples returns no result and leaves
\* last_signal unchanged, and the payload published for that tick has
\* signal, ma_short and ma_long all None.
C2_InsufficientHistory ==
    [][/\ (pc = "evaluate" /\ pc' = "emit" /\ Len(prices) < 21)
            => (info' = None /\ last_signal' = last_signal)
       /\ (pc = "emit" /\ pc' = "sleep" /\ Len(prices) < 21)
            => /\ payload'.signal = None
               /\ payload'.ma_short = None
               /\ payload'.ma_long = None
               /\ last_signal' = last_signal]_vars

C2_Witness ==
    /\ pc = "sleep"
    /\ Len(prices) = 20
    /\ Len(published) = 20
    /\ payload # None
    /\ payload.signal = None
    /\ payload.ma_short = None

\* C3: an evaluation on at least 21 samples emits BUY exactly when the
\* short average exceeds the long one and last_signal is not BUY, SELL
\* exactly when it is below and last_signal is not SELL, and none otherwise.
C3_CrossoverRule ==
    [][(pc = "evaluate" /\ pc' = "emit" /\ Len(prices) >= 21)
        => LET dir == Direction(info'.signal)
               s == Short20(prices)
               l == Long20(prices)
           IN /\ dir \in {"BUY", "SELL", "none"}
              /\ (dir = "BUY") <=> (s > l /\ last_signal # BUY)
              /\ (dir = "SELL") <=> (s < l /\ last_signal # SELL)]_vars

\* the tie after a BUY: equal averages, nothing emitted
C3_Witness ==
    /\ pc = "emit"
    /\ Len(prices) >= 21
    /\ info # None
    /\ info.signal = None
    /\ Short20(prices) = Long20(prices)
    /\ last_signal = BUY
    /\ prices[Len(prices)] > prices[1]

\* C4: two consecutive published directional signals never have the same
\* direction, whatever lies between them.
C4_Alternation ==
    \A i \in 1..(Len(Directional) - 1) :
        Direction(Directional[i]) # Direction(Directional[i + 1])

\* a plain signal, then a risky one of the other direction
C4_Witness ==
    /\ Len(Directional) >= 2
    /\ Len(Directional[1]) = 1
    /\ Len(Directional[2]) > 1
    /\ published[Len(published)] = None

\* C5 as stated: every published signal is BUY, SELL, BUY-RISKY, SELL-RISKY
\* or none.
C5_Original ==
    payload # None =>
        payload.signal \in {BUY, SELL, <<"BUY-RISKY">>, <<"SELL-RISKY">>, None}

\* C5 (amended): every signal an evaluation produces, and every published
\* signal, is "BUY", "SELL", "BUY (RISKY - anomaly)",
\* "SELL (RISKY - anomaly)" or None.
C5_SignalValues ==
    LET Allowed == {BUY, SELL,
                    <<"BUY", "(RISKY", "-", "anomaly)">>,
                    <<"SELL", "(RISKY", "-", "anomaly)">>,
                    None}
    IN /\ info # None => info.signal \in Allowed
       /\ payload # None => payload.signal \in Allowed
       /\ \A i \in 1..Len(published) : published[i] \in Allowed

C5_Witness ==
    /\ payload # None
    /\ payload.signal = <<"SELL", "(RISKY", "-", "anomaly)">>
    /\ published[Len(published)] = payload.signal

\* C6: a failed fetch, and every step up to the next fetch, leaves the
\* buffers, last_signal and everything published unchanged, and the loop
\* goes to its sleep without appending, evaluating or emitting.
C6_FailedFetchSkipsTick ==
    [][fails' > 0
        => /\ pc' \in {"sleep", "fetch"}
           /\ prices' = prices
           /\ timestamps' = timestamps
           /\ arrivals' = arrivals
           /\ last_signal' = last_signal
           /\ info' = info
           /\ payload' = payload
           /\ published' = published]_vars

\* three failed fetches in a row, on a buffer that holds samples
C6_Witness ==
    /\ fails = 3
    /\ pc = "sleep"
    /\ Len(prices) >= 21
    /\ Len(published) = Len(arrivals)

\* C7: a failed fetch never ends the loop: the thread is not terminated in
\* a span of failed fetches, and after a failed fetch the loop comes back to
\* its next call of fetch_price().
C7_FetchFailureNotFatal ==
    /\ [](fails > 0 => pc \in {"sleep", "fetch"})
    /\ ((pc = "sleep" /\ fails > 0) ~> (pc = "fetch"))

\* back at the fetch after a failed one, with the buffer untouched
C7_Witness ==
    /\ pc = "fetch"
    /\ fails = 2
    /\ price = None
    /\ Len(prices) >= 1

\* C8 as stated: a broadcast that raises does not end the tick loop; the
\* poller is always at one of the statements of its loop.
C8_PublishFailureNotFatal ==
    pc \in {"fetch", "append", "evaluate", "emit", "sleep"}

Increasing(s) == \A i \in 1..(Len(s) - 1) : s[i] < s[i + 1]
Decreasing(s) == \A i \in 1..(Len(s) - 1) : s[i] > s[i + 1]

\* the signals of ticks 1..n of a one-directional feed: the direction once,
\* at the 21st tick, none before and after
OneSignalAt21(sigs, dir) ==
    \A i \in 1..Len(sigs) :
        IF i = 21 THEN sigs[i] # None /\ Head(sigs[i]) = dir
        ELSE sigs[i] = None

\* the signals of the ticks so far, the evaluation not yet published included
Evaluated ==
    IF pc = "emit"
    THEN Append(published, IF info = None THEN None ELSE info.signal)
    ELSE published

\* C9: fed a strictly increasing price sequence from the start, the first
\* evaluation with both averages (the 21st tick) yields a signal starting
\* with BUY and every other evaluation yields none; a strictly decreasing
\* sequence yields SELL once, at the 21st tick, and none otherwise.
C9_TrendSignalsOnce ==
    /\ Increasing(ArrivalPrices) => OneSignalAt21(Evaluated, "BUY")
    /\ Decreasing(ArrivalPrices) => OneSignalAt21(Evaluated, "SELL")

\* a falling feed: SELL at the 21st tick, then suppressed, also on ticks
\* whose anomaly check ran
C9_Witness ==
    /\ Decreasing(ArrivalPrices)
    /\ Len(published) >= 52
    /\ published[21] = SELL
    /\ published[52] = None
    /\ payload.anomalous = Some(TRUE)

\* 100, 101, ..., 105, 104, 103, ...
Zigzag(i) == IF i <= 6 THEN 99 + i ELSE 111 - i
FedZigzag == \A i \in 1..Len(arrivals) : arrivals[i][1] = Zigzag(i)

\* C10 as stated: fed the zigzag for at least 21 ticks, the published
\* signals hold exactly one BUY-class signal followed by exactly one
\* SELL-class signal.
C10_Original ==
    (FedZigzag /\ Len(published) >= 21)
        => /\ Len(Directional) = 2
           /\ Direction(Directional[1]) = "BUY"
           /\ Direction(Directional[2]) = "SELL"

\* C10 (amended): fed the zigzag, the published signals hold no BUY-class
\* signal and exactly one SELL-class signal, the plain SELL of the 21st
\* tick; every other tick publishes none.
C10_ZigzagSellOnly ==
    FedZigzag => \A i \in 1..Len(published) :
                    published[i] = IF i = 21 THEN SELL ELSE None

C10_Witness ==
    /\ FedZigzag
    /\ Len(published) >= 30
    /\ published[21] = SELL
    /\ Directional = <<SELL>>

\* C11 as stated: the second of two calls in a row on the same buffer
\* returns what the first returned.
C11_Original ==
    Probed => probe.second = probe.first

\* C11 (amended): the second call returns the same averages and the same
\* anomalous flag as the first, and signal none; so the two results are
\* identical exactly when the first call emitted none.
C11_SecondCall ==
    Probed =>
        /\ (probe.first = None) <=> (probe.second = None)
        /\ probe.first # None =>
              /\ probe.second.ma_short = probe.first.ma_short
              /\ probe.second.ma_long = probe.first.ma_long
              /\ probe.second.anomalous = probe.first.anomalous
              /\ probe.second.signal = None
        /\ (probe.second = probe.first)
              <=> (probe.first = None \/ probe.first.signal = None)

\* a risky SELL from the first call, none from the second
C11_Witness ==
    /\ Probed
    /\ probe.first # None
    /\ probe.first.signal = SELL \o RISKY_TAG
    /\ probe.second.signal = None
    /\ probe.second.anomalous

\* C12 as stated: once stop has been requested no further payload is
\* published, also for a fetch in flight at the time of the request.
C12_NoPublishAfterStop ==
    [][stop_requested => published' = published]_vars

\* the tick of the newest sample is over: the loop has gone past its emit
TickOver == pc \in {"sleep", "fetch", "append", "crashed"}

\* the payload of the newest sample's tick: its price is the fetched price
\* and the newest sample, its other fields are those of the evaluation of
\* the buffer that holds the sample
PayloadOfTick ==
    /\ payload # None
    /\ payload.price = price[1]
    /\ payload.price = prices[Len(prices)]
    /\ payload.timestamp = timestamps[Len(timestamps)]
    /\ (info = None) <=> (Len(prices) < 21)
    /\ info = None =>
          /\ payload.signal = None /\ payload.ma_short = None
          /\ payload.ma_long = None /\ payload.anomalous = None
    /\ info # None =>
          /\ payload.signal = info.signal
          /\ payload.ma_short = info.ma_short
          /\ payload.ma_long = info.ma_long
          /\ payload.anomalous = Some(info.anomalous)
          /\ 4 * info.ma_short[1] = Short20(prices)
          /\ info.ma_long[1] = Long20(prices)

\* C13 as stated: every tick whose fetch succeeded has appended, then
\* evaluated, then broadcast exactly one payload, the payload of that tick.
C13_OnePayloadPerTick ==
    /\ TickOver => Len(published) = Len(arrivals)
    /\ (pc = "sleep" /\ fails = 0) =>
          /\ PayloadOfTick
          /\ published[Len(published)] = payload.signal

\* C14: is_anomalous returns False for every window of fewer than 30
\* returns, whatever the values and whatever the forest would say.
C14_ShortWindowNotAnomalous ==
    (probe # None /\ probe.fn = "is_anomalous" /\ Len(probe.window) < 30)
        => probe.result = FALSE

\* 29 returns that the forest would call anomalous
C14_Witness ==
    /\ probe # None
    /\ probe.fn = "is_anomalous"
    /\ Len(probe.window) = 29
    /\ probe.window[28] # probe.window[29]
    /\ probe.forest
    /\ probe.result = FALSE

\* an evaluation step that emits a directional signal
EmitsSignal == pc = "evaluate" /\ pc' = "emit" /\ info' # None /\ info'.signal # None

\* C15: last_signal is None at start and always None, "BUY" or "SELL"; it
\* changes only in an evaluation that emits a signal, to that signal's
\* first word; every other step leaves it alone; once set it is never None.
C15_LastSignalLifecycle ==
    /\ last_signal = None
    /\ [](last_signal \in {None, BUY, SELL})
    /\ [][/\ (last_signal' # last_signal) => EmitsSignal
          /\ EmitsSignal => (last_signal' = <<Head(info'.signal)>>)
          /\ (last_signal # None) => (last_signal' # None)]_vars

\* a risky BUY emitted after a SELL: the tag is not kept
C15_Witness ==
    /\ pc = "emit"
    /\ info # None
    /\ info.signal = BUY \o RISKY_TAG
    /\ last_signal = BUY
    /\ Directional = <<SELL>>

\* the evaluation about to run, under either verdict of the forest
IfAnomalous == evaluate_signals(prices, last_signal, TRUE)
IfNormal == evaluate_signals(prices, last_signal, FALSE)

\* C16: on the same buffer and the same last_signal, the evaluation with an
\* anomalous verdict and the one with a normal verdict emit the same
\* direction (or both none), report the same averages and leave the same
\* last_signal; they differ at most by the risky tag and the anomalous flag.
C16_AnomalyKeepsDirection ==
    (pc = "evaluate" /\ Len(prices) >= 21) =>
        /\ Direction(IfAnomalous.info.signal) = Direction(IfNormal.info.signal)
        /\ IfAnomalous.last_signal = IfNormal.last_signal
        /\ IfAnomalous.info.ma_short = IfNormal.info.ma_short
        /\ IfAnomalous.info.ma_long = IfNormal.info.ma_long
        /\ IfAnomalous.info.signal # IfNormal.info.signal =>
              /\ IfAnomalous.info.signal = IfNormal.info.signal \o RISKY_TAG
              /\ IfAnomalous.info.anomalous
              /\ ~IfNormal.info.anomalous

\* a crossover on a tick whose anomaly check runs: SELL either way
C16_Witness ==
    /\ pc = "evaluate"
    /\ Len(prices) >= 51
    /\ IfAnomalous.info.signal = SELL \o RISKY_TAG
    /\ IfNormal.info.signal = SELL
    /\ IfAnomalous.last_signal = SELL
    /\ last_signal = BUY

\* C17: an evaluation on fewer than 51 samples (fewer than 50 returns)
\* reports anomalous = False, and none of the signals published on the first
\* 50 samples carries the risky tag.
C17_NoAnomalyBelow51 ==
    /\ (pc = "emit" /\ info # None /\ Len(prices) < RETURNS_WINDOW + 1) =>
          /\ info.anomalous = FALSE
          /\ info.signal \in {None, BUY, SELL}
    /\ \A i \in 1..Len(published) :
          i < RETURNS_WINDOW + 1 => published[i] \in {None, BUY, SELL}

\* a crossover on the 50th sample: 49 returns, one short of the anomaly check
C17_Witness ==
    /\ pc = "emit"
    /\ Len(prices) = RETURNS_WINDOW
    /\ info # None
    /\ info.signal \in {BUY, SELL}
    /\ info.anomalous = FALSE

\* C18: the ma_short and ma_long an evaluation reports on at least 21 samples
\* are the sum of the newest 5 samples of the buffer over 5, and the sum of
\* its newest 20 samples over 20.
C18_AveragesAreWindowMeans ==
    (pc = "emit" /\ info # None) =>
        /\ Len(prices) >= MIN_SAMPLES
        /\ info.ma_short = <<SumFrom(prices, Len(prices) - 4), 5>>
        /\ info.ma_long = <<SumFrom(prices, Len(prices) - 19), 20>>

\* a buffer longer than both windows whose older samples would change either
\* mean: the mean of all samples differs from the mean of the newest 20, and
\* the newest 6 samples are not the same price
C18_Witness ==
    /\ pc = "emit"
    /\ info # None
    /\ Len(prices) > 2 * LONG
    /\ 20 * SumFrom(prices, 1) # Len(prices) * info.ma_long[1]
    /\ prices[Len(prices) - 5] # prices[Len(prices)]
    /\ info.ma_short # info.ma_long

\* C19: prices and timestamps change only in the loop's append step and
\* last_signal only in its evaluate step; a tick's fetch begins only from the
\* loop's sleep, after the previous tick's evaluation and publish; a connect
\* or disconnect leaves prices, timestamps, last_signal and the loop's
\* position unchanged.
C19_SingleWriter ==
    [][/\ (prices' # prices \/ timestamps' # timestamps) =>
             (pc = "append" /\ pc' = "evaluate" /\ clients' = clients)
       /\ (last_signal' # last_signal) =>
             (pc = "evaluate" /\ pc' = "emit" /\ clients' = clients)
       /\ (pc' = "fetch" /\ pc # "fetch") => (pc = "sleep")
       /\ (pc' # pc) => (clients' = clients)
       /\ (clients' # clients) =>
             UNCHANGED <<prices, timestamps, last_signal, pc, info>>]_vars

\* a client is connected while the loop is between evaluate and publish, on
\* a tick whose evaluation turned the BUY left by an earlier tick into SELL
C19_Witness ==
    /\ clients = 1
    /\ pc = "emit"
    /\ Directional = <<BUY>>
    /\ info # None
    /\ Direction(info.signal) = "SELL"
    /\ last_signal = SELL

\* the payload published last, while the buffer still is the one it was
\* evaluated on (the next append has not happened)
JustPublished == payload # None /\ pc \in {"sleep", "fetch", "append"}
IsNumber(x) == x # None /\ x[2] > 0

\* C20: in a published payload ma_short and ma_long are both None or both
\* numbers; they are numbers exactly when the buffer held at least 21 samples
\* at evaluation; a payload with a signal has both averages and a boolean
\* anomalous; a payload published on fewer than 21 samples has anomalous None.
C20_PayloadShape ==
    JustPublished =>
        /\ \/ (payload.ma_short = None /\ payload.ma_long = None)
           \/ (IsNumber(payload.ma_short) /\ IsNumber(payload.ma_long))
        /\ IsNumber(payload.ma_short) <=> (Len(prices) >= MIN_SAMPLES)
        /\ payload.signal # None =>
              /\ IsNumber(payload.ma_short)
              /\ IsNumber(payload.ma_long)
              /\ payload.anomalous \in {Some(TRUE), Some(FALSE)}
        /\ Len(prices) < MIN_SAMPLES => payload.anomalous = None

\* a payload with a signal and an anomalous verdict, published after the
\* payloads of the first 20 samples
C20_Witness ==
    /\ pc = "sleep"
    /\ fails = 0
    /\ payload # None
    /\ payload.signal = BUY \o RISKY_TAG
    /\ payload.anomalous = Some(TRUE)
    /\ Len(published) > MIN_SAMPLES
    /\ published[Len(published)] = payload.signal

====
